---- MODULE Spec2Model ----
(***************************************************************************)
(* A model of src/app.py, the VOC dashboard: the field normalisers, the    *)
(* role filter, the sidebar query filter, the login screen, the activity   *)
(* log registration and the e-mail alert dispatch.                         *)
(*                                                                         *)
(* Text is a sequence of one-character strings.  The source's Korean       *)
(* literals are written in ASCII here:                                     *)
(*   "선택하세요" -> PLACEHOLDER     "전체" -> ALL                         *)
(*   "관리지사" -> COL_BRANCH        "담당자" -> COL_MANAGER               *)
(*   "구역담당자" -> COL_ZONE        "리스크등급" -> COL_RISK              *)
(*   "체미매칭" -> COL_MATCH         "VOC유형중" -> COL_VOC                *)
(*   branches "중앙" -> "Jungang", "강북" -> "Gangbuk", ...                *)
(***************************************************************************)
EXTENDS Integers, Sequences, FiniteSets, TLC

VARIABLES
    login_type,     \* st.session_state["login_type"]
    login_user,     \* st.session_state["login_user"]
    login_branch,   \* st.session_state["login_branch"]
    logFileExists,  \* os.path.exists(LOG_FILE)
    logFile,        \* the rows of LOG_FILE on disk
    logsCache,      \* the st.cache_data entry of load_logs
    logs_loaded,    \* logs_df as assigned at line 519 of the latest script run
    logs_df,        \* logs_df at the end of the latest script run
    now,            \* datetime.now(), in seconds
    smtpLog,        \* the transmissions handed to the mail relay
    lastMsg,        \* the st.error / st.success of the latest script run
    inp,            \* the input of the pure-function specifications
    out,            \* their result
    pc              \* their position

vars == << login_type, login_user, login_branch, logFileExists, logFile,
           logsCache, logs_loaded, logs_df, now, smtpLog, lastMsg,
           inp, out, pc >>

sessionVars == << login_type, login_user, login_branch >>
logVars == << logFileExists, logFile, logsCache, logs_loaded, logs_df >>
pureVars == << inp, out, pc >>

----------------------------------------------------------------------------
(* Bounds *)

MaxIdLen == 9
MaxFeeLen == 3
MaxRoleRows == 2
MaxFilterRows == 4
MaxLogs == 2
MaxNow == 1
MaxMails == 2

----------------------------------------------------------------------------
(* Text helpers *)

\* A missing value (NaN / None), for which pd.isna is true.
NA == << "<NA>" >>

None == "None"

isna(x) == x = NA

AsciiDigits == {"0", "1", "2", "3", "4", "5", "6", "7", "8", "9"}

\* Characters outside 0-9 for which str.isdigit() is true; "U+00B2" stands
\* for the superscript two.
UnicodeDigits == {"U+00B2"}

Whitespace == {" "}

\* c.isdigit() of one character
isdigit(c) == c \in AsciiDigits \cup UnicodeDigits

\* s.isdigit() of a string: non-empty and every character a digit
str_isdigit(s) == Len(s) > 0 /\ \A i \in 1..Len(s) : isdigit(s[i])

IsAsciiDigit(c) == c \in AsciiDigits

RECURSIVE lstrip(_)
lstrip(s) == IF s # << >> /\ Head(s) \in Whitespace THEN lstrip(Tail(s)) ELSE s

RECURSIVE rstrip(_)
rstrip(s) ==
    IF s # << >> /\ s[Len(s)] \in Whitespace
    THEN rstrip(SubSeq(s, 1, Len(s) - 1))
    ELSE s

\* str.strip()
strip(s) == rstrip(lstrip(s))

\* s.replace(",", "")
RemoveCommas(s) == SelectSeq(s, LAMBDA c : c # ",")

\* s[:n]
Take(s, n) == SubSeq(s, 1, IF Len(s) < n THEN Len(s) ELSE n)

\* All sequences over alphabet A of length at most n.
RECURSIVE SeqsUpTo(_, _)
SeqsUpTo(A, n) ==
    IF n = 0 THEN { << >> }
    ELSE LET shorter == SeqsUpTo(A, n - 1)
         IN  shorter \cup { Append(s, c) : s \in { t \in shorter : Len(t) = n - 1 }, c \in A }

DigitValue(c) ==
    CASE c = "0" -> 0 [] c = "1" -> 1 [] c = "2" -> 2 [] c = "3" -> 3
      [] c = "4" -> 4 [] c = "5" -> 5 [] c = "6" -> 6 [] c = "7" -> 7
      [] c = "8" -> 8 [] c = "9" -> 9

\* int(s) of a string of ASCII digits
RECURSIVE ParseInt(_)
ParseInt(s) ==
    IF s = << >> THEN 0
    ELSE 10 * ParseInt(SubSeq(s, 1, Len(s) - 1)) + DigitValue(s[Len(s)])

----------------------------------------------------------------------------
(* Field normalisers *)

CONTRACT_WIDTH == 8

\* "".join([c for c in str(x) if c.isdigit()])
RECURSIVE JoinDigits(_)
JoinDigits(s) ==
    IF s = << >> THEN << >>
    ELSE IF isdigit(Head(s)) THEN << Head(s) >> \o JoinDigits(Tail(s))
    ELSE JoinDigits(Tail(s))

\* a slip that keeps the last eight digits instead of the first eight
Truncate8_last(s) ==
    IF Len(s) >= CONTRACT_WIDTH
    THEN SubSeq(s, Len(s) - CONTRACT_WIDTH + 1, Len(s))
    ELSE s

\* s[:8] if len(s) >= 8 else s
Truncate8(s) == IF Len(s) >= CONTRACT_WIDTH THEN Take(s, CONTRACT_WIDTH) ELSE s

clean_contract_number(x) ==
    IF isna(x) THEN << >> ELSE Truncate8(JoinDigits(x))

\* re.sub(r"[^0-9]", "", str(x))
RECURSIVE SubNonDigits(_)
SubNonDigits(s) ==
    IF s = << >> THEN << >>
    ELSE IF IsAsciiDigit(Head(s)) THEN << Head(s) >> \o SubNonDigits(Tail(s))
    ELSE SubNonDigits(Tail(s))

clean_contract(x) ==
    IF isna(x) THEN << >> ELSE Truncate8(SubNonDigits(x))

\* round(v / 1000): Python 3 rounds a half to the even neighbour
RoundDiv1000(v) ==
    LET q == v \div 1000
        r == v % 1000
    IN  IF r < 500 THEN q
        ELSE IF r > 500 THEN q + 1
        ELSE IF q % 2 = 0 THEN q ELSE q + 1

FeeInt(v) == [kind |-> "int", val |-> v]
FeeNaN == [kind |-> "nan", val |-> 0]
\* int(s) raises ValueError on a digit outside 0-9
FeeValueError == [kind |-> "ValueError", val |-> 0]

\* int(s) followed by the rescale
IntThenRound(s) ==
    IF \A i \in 1..Len(s) : IsAsciiDigit(s[i])
    THEN FeeInt(RoundDiv1000(ParseInt(s)))
    ELSE FeeValueError

clean_monthly_fee(x) ==
    IF isna(x) THEN FeeNaN
    ELSE LET s == strip(RemoveCommas(x))
         IN  IF ~ str_isdigit(s) THEN FeeNaN ELSE IntThenRound(s)

parse_fee(v) ==
    IF isna(v) THEN FeeInt(0)
    ELSE LET s == strip(RemoveCommas(v))
         IN  IF ~ str_isdigit(s) THEN FeeInt(0) ELSE IntThenRound(s)

----------------------------------------------------------------------------
(* The session, idle: what the pure-function specifications leave alone *)

EmptyCache == [filled |-> FALSE, rows |-> << >>]

SessionInit ==
    /\ login_type = None
    /\ login_user = None
    /\ login_branch = None
    /\ logFileExists = FALSE
    /\ logFile = << >>
    /\ logsCache = EmptyCache
    /\ logs_loaded = << >>
    /\ logs_df = << >>
    /\ now = 1
    /\ smtpLog = << >>
    /\ lastMsg = "none"

appVars == << login_type, login_user, login_branch, logFileExists, logFile,
              logsCache, logs_loaded, logs_df, now, smtpLog, lastMsg >>

----------------------------------------------------------------------------
(* Specification of the contract-number normalisers *)

IdAlphabet == {"1", "2", "-"}

\* Raw contract numbers: short texts over the alphabet, the same behind one
\* non-ASCII digit, and the missing value.
RawIds ==
    LET base == SeqsUpTo(IdAlphabet, MaxIdLen)
    IN  base
        \cup { << "U+00B2" >> \o s : s \in { t \in base : Len(t) < MaxIdLen } }
        \cup { NA }

InitContract ==
    /\ SessionInit
    /\ inp \in RawIds
    /\ out = << >>
    /\ pc = "raw"

\* load_data, line 98: df["계약번호"].apply(clean_contract_number)
ApplyCleanContractNumber ==
    /\ pc = "raw"
    /\ out' = clean_contract_number(inp)
    /\ pc' = "number"
    /\ UNCHANGED << appVars, inp >>

\* line 328 applied to a raw value
ApplyCleanContract ==
    /\ pc = "raw"
    /\ out' = clean_contract(inp)
    /\ pc' = "contract"
    /\ UNCHANGED << appVars, inp >>

\* line 328 applied to the column load_data cleaned at line 98
ApplyCleanContractAfterLoad ==
    /\ pc = "number"
    /\ out' = clean_contract(out)
    /\ pc' = "both"
    /\ UNCHANGED << appVars, inp >>

NextContract ==
    \/ ApplyCleanContractNumber
    \/ ApplyCleanContract
    \/ ApplyCleanContractAfterLoad

SpecContract == InitContract /\ [][NextContract]_vars

----------------------------------------------------------------------------
(* Specification of the monthly-fee normalisers *)

FeeAlphabet == {"0", "1", "5", ",", " ", "a", "U+00B2"}

DigitChar(d) ==
    CASE d = 0 -> "0" [] d = 1 -> "1" [] d = 2 -> "2" [] d = 3 -> "3"
      [] d = 4 -> "4" [] d = 5 -> "5" [] d = 6 -> "6" [] d = 7 -> "7"
      [] d = 8 -> "8" [] d = 9 -> "9"

\* the decimal text of n
RECURSIVE Decimal(_)
Decimal(n) ==
    IF n < 10 THEN << DigitChar(n) >>
    ELSE Append(Decimal(n \div 10), DigitChar(n % 10))

\* the decimal text of n with thousands separators, as the source file writes fees
RECURSIVE WithCommas(_)
WithCommas(n) ==
    IF n < 1000 THEN Decimal(n)
    ELSE LET r == n % 1000
             low == << DigitChar(r \div 100), DigitChar((r \div 10) % 10), DigitChar(r % 10) >>
         IN  WithCommas(n \div 1000) \o << "," >> \o low

\* Fees in won around the rounding boundary of each thousand.
FeeAmounts == { q * 1000 + r : q \in {0, 1, 2, 1234, 1235}, r \in {0, 499, 500, 501} }

Fee_1_234_500 == << "1", ",", "2", "3", "4", ",", "5", "0", "0" >>

FeeInputs ==
    SeqsUpTo(FeeAlphabet, MaxFeeLen)
    \cup { WithCommas(n) : n \in FeeAmounts }
    \cup { Decimal(n) : n \in FeeAmounts }
    \cup { << "a", "b", "c" >>, NA }

InitFee ==
    /\ SessionInit
    /\ inp \in FeeInputs
    /\ out = [kind |-> "none", val |-> 0]
    /\ pc = "raw"

\* load_data, line 108: df["월정료"].apply(clean_monthly_fee)
ApplyCleanMonthlyFee ==
    /\ pc = "raw"
    /\ out' = clean_monthly_fee(inp)
    /\ pc' = "clean_monthly_fee"
    /\ UNCHANGED << appVars, inp >>

\* line 351: df_view[fee_col].apply(parse_fee)
ApplyParseFee ==
    /\ pc = "raw"
    /\ out' = parse_fee(inp)
    /\ pc' = "parse_fee"
    /\ UNCHANGED << appVars, inp >>

NextFee ==
    \/ ApplyCleanMonthlyFee
    \/ ApplyParseFee

SpecFee == InitFee /\ [][NextFee]_vars

\* the text left after removing commas and surrounding blanks passes the
\* function's own test, str.isdigit
AllDigitsAfterCommas(x) == str_isdigit(strip(RemoveCommas(x)))

\* C10: with the /1000 rescale the fee "1,234,500" becomes 1235, and an input
\* that is not all digits once its commas are removed yields the sentinel of
\* the function (NaN for clean_monthly_fee, 0 for parse_fee), never a fault.
C10_FeeRescale ==
    /\ (pc \in {"clean_monthly_fee", "parse_fee"} /\ inp = Fee_1_234_500)
          => out = FeeInt(1235)
    /\ (pc = "clean_monthly_fee" /\ ~ isna(inp) /\ ~ AllDigitsAfterCommas(inp))
          => out = FeeNaN
    /\ (pc = "parse_fee" /\ ~ isna(inp) /\ ~ AllDigitsAfterCommas(inp))
          => out = FeeInt(0)

----------------------------------------------------------------------------
(* Tables *)

\* A table is its set of column names and its rows in order.  A row is a
\* record of every field the dashboard reads; the value of a column the
\* table lacks is never read.
COL_BRANCH == "branch"
COL_MANAGER == "manager"
COL_ZONE == "zone_manager"
COL_RISK == "risk"
COL_MATCH == "match"
COL_VOC == "voc_mid"

Table(cols, rows) == [cols |-> cols, rows |-> rows]

\* df[mask]: the rows for which keep holds, in order, columns unchanged
Where(df, keep(_)) == Table(df.cols, SelectSeq(df.rows, keep))

RowOf(contract, branch, manager, zone, risk, match, voc, fee) ==
    [contract |-> contract, branch |-> branch, manager |-> manager,
     zone |-> zone, risk |-> risk, match |-> match, voc |-> voc, fee |-> fee]

Range(s) == { s[i] : i \in DOMAIN s }

\* how many times row r occurs in a sequence of rows
Count(rows, r) == Cardinality({ i \in DOMAIN rows : rows[i] = r })

----------------------------------------------------------------------------
(* Access filter *)

\* lines 178-187
BRANCH_ADMIN_PW ==
    [b \in {"Jungang", "Gangbuk", "Seodaemun", "Goyang", "Uijeongbu",
            "Namyangju", "Gangneung", "Wonju"} |->
        CASE b = "Jungang" -> "C001" [] b = "Gangbuk" -> "C002"
          [] b = "Seodaemun" -> "C003" [] b = "Goyang" -> "C004"
          [] b = "Uijeongbu" -> "C005" [] b = "Namyangju" -> "C006"
          [] b = "Gangneung" -> "C007" [] b = "Wonju" -> "C008"]

\* branch + "_ADMIN", line 224
BranchAdminUser(b) ==
    CASE b = "Jungang" -> "Jungang_ADMIN" [] b = "Gangbuk" -> "Gangbuk_ADMIN"
      [] b = "Seodaemun" -> "Seodaemun_ADMIN" [] b = "Goyang" -> "Goyang_ADMIN"
      [] b = "Uijeongbu" -> "Uijeongbu_ADMIN" [] b = "Namyangju" -> "Namyangju_ADMIN"
      [] b = "Gangneung" -> "Gangneung_ADMIN" [] b = "Wonju" -> "Wonju_ADMIN"

\* the branches the model selects in the branch selectbox
BranchChoices == {"Jungang", "Gangbuk"}

\* the names a staff login can establish
StaffNames == {"Kim", "Lee"}

\* a slip that returns the copy without applying the branch mask
BranchAdminView_unscoped(df) == df

\* lines 292-296
BranchAdminView(df) ==
    IF COL_BRANCH \in df.cols
    THEN Where(df, LAMBDA r : r.branch = login_branch)
    ELSE df

\* a slip that leaves out the secondary manager column
UserView_noSecondary(df) ==
    IF COL_MANAGER \in df.cols
    THEN Where(df, LAMBDA r : r.manager = login_user)
    ELSE df

\* lines 299-305
UserView(df) ==
    IF COL_MANAGER \in df.cols
    THEN Where(df, LAMBDA r : r.manager = login_user)
    ELSE IF COL_ZONE \in df.cols
    THEN Where(df, LAMBDA r : r.zone = login_user)
    ELSE df

filter_by_role(df) ==
    IF login_type = "admin" THEN df
    ELSE IF login_type = "public" THEN df
    ELSE IF login_type = "branch_admin" THEN BranchAdminView(df)
    ELSE IF login_type = "user" THEN UserView(df)
    ELSE df

----------------------------------------------------------------------------
(* Specification of the access filter *)

\* The sessions login_screen can leave behind.  login_branch is written by
\* the branch login only and is never cleared, so any other role may hold
\* the branch of an earlier branch login.
Sessions ==
    { << None, None, None >> }
    \cup { << "branch_admin", BranchAdminUser(b), b >> : b \in BranchChoices }
    \cup { << "admin", "ADMIN", b >> : b \in BranchChoices \cup {None} }
    \cup { << "public", "PUBLIC", b >> : b \in BranchChoices \cup {None} }
    \cup { << "user", n, b >> : n \in StaffNames, b \in BranchChoices \cup {None} }

RoleRows ==
    { RowOf(<< "1" >>, b, m, z, "LOW", "O", "v1", 0) :
        b \in BranchChoices, m \in StaffNames, z \in StaffNames }

RoleCols == SUBSET {COL_BRANCH, COL_MANAGER, COL_ZONE}

InitRole ==
    /\ \E s \in Sessions :
          /\ login_type = s[1]
          /\ login_user = s[2]
          /\ login_branch = s[3]
    /\ logFileExists = FALSE
    /\ logFile = << >>
    /\ logsCache = EmptyCache
    /\ logs_loaded = << >>
    /\ logs_df = << >>
    /\ now = 1
    /\ smtpLog = << >>
    /\ lastMsg = "none"
    /\ inp \in { Table(c, r) : c \in RoleCols, r \in SeqsUpTo(RoleRows, MaxRoleRows) }
    /\ out = Table({}, << >>)
    /\ pc = "df"

\* line 316: df_view = filter_by_role(df_view)
ApplyFilterByRole ==
    /\ pc = "df"
    /\ out' = filter_by_role(inp)
    /\ pc' = "df_view"
    /\ UNCHANGED << appVars, inp >>

NextRole == ApplyFilterByRole

SpecRole == InitRole /\ [][NextRole]_vars

\* out holds exactly the rows of inp for which keep holds: each as often as
\* inp holds it, no other row, and the same columns
ExactlyRowsWhere(keep(_)) ==
    /\ out.cols = inp.cols
    /\ \A r \in Range(inp.rows) \cup Range(out.rows) :
          Count(out.rows, r) = IF keep(r) THEN Count(inp.rows, r) ELSE 0
    /\ Len(out.rows) <= Len(inp.rows)

\* C2: a branch admin of branch b viewing a table with the branch column
\* sees exactly the rows whose branch is b; an admin or a public session sees
\* every row of the table.
C2_BranchAdminScope ==
    pc = "df_view" =>
      /\ (login_type = "branch_admin" /\ COL_BRANCH \in inp.cols)
            => ExactlyRowsWhere(LAMBDA r : r.branch = login_branch)
      /\ login_type \in {"admin", "public"} => out = inp

\* A branch admin has been shown one of two rows, the other branch's hidden.
C2_Witness ==
    /\ pc = "df_view"
    /\ login_type = "branch_admin"
    /\ COL_BRANCH \in inp.cols
    /\ Len(inp.rows) = 2
    /\ Len(out.rows) = 1
    /\ \E i \in 1..2 : inp.rows[i].branch # login_branch

\* C3: a staff login u sees exactly the rows whose manager column is u; when
\* the table lacks the manager column, exactly the rows whose secondary
\* (zone) manager column is u; and the whole table only when it has neither.
C3_UserScope ==
    (pc = "df_view" /\ login_type = "user") =>
      /\ COL_MANAGER \in inp.cols
            => ExactlyRowsWhere(LAMBDA r : r.manager = login_user)
      /\ (COL_MANAGER \notin inp.cols /\ COL_ZONE \in inp.cols)
            => ExactlyRowsWhere(LAMBDA r : r.zone = login_user)
      /\ (COL_MANAGER \notin inp.cols /\ COL_ZONE \notin inp.cols)
            => out = inp

\* A staff login has been scoped by the secondary column of a table that
\* lacks the manager column.
C3_Witness ==
    /\ pc = "df_view"
    /\ login_type = "user"
    /\ COL_MANAGER \notin inp.cols
    /\ COL_ZONE \in inp.cols
    /\ Len(inp.rows) = 2
    /\ Len(out.rows) = 1
    /\ out.rows[1].manager # login_user

----------------------------------------------------------------------------
(* The dashboard session: data, login, activity log *)

PLACEHOLDER == << "SELECT" >>

\* The contract table as read from DATA_FILE (raw contract numbers).
DataFile ==
    Table({COL_BRANCH, COL_MANAGER, COL_ZONE, COL_RISK, COL_MATCH, COL_VOC},
          << RowOf(<< "1", "2", "3", "4", "-", "5", "6", "7", "8", "-", "9" >>,
                   "Jungang", "Kim", "Kim", "HIGH", "X", "v1", 100),
             RowOf(<< "0", "0", "0", "0", "-", "0", "0", "1", "2" >>,
                   "Gangbuk", "Lee", "Lee", "LOW", "X", "v2", 200),
             RowOf(<< "0", "0", "0", "0", "0", "0", "1", "2" >>,
                   "Jungang", "Kim", "Lee", "LOW", "O", "v1", 300) >>)

\* load_data, line 98: the contract column cleaned
load_data ==
    Table(DataFile.cols,
          [i \in DOMAIN DataFile.rows |->
              [DataFile.rows[i] EXCEPT !.contract = clean_contract_number(@)]])

\* lines 315-316: df_view = filter_by_role(df.copy())
df_view == filter_by_role(load_data)

\* lines 328, 534: the contract selectbox offers the placeholder and the
\* cleaned contract numbers of df_view
ContractOptions ==
    {PLACEHOLDER} \cup { clean_contract(df_view.rows[i].contract) : i \in DOMAIN df_view.rows }

\* The staff directory as read from CONTACT_FILE.
contact_df ==
    << [name |-> "Kim", phone |-> << "0", "1", "0", "5", "6", "7", "8" >>,
        email |-> << "k", "@" >>],
       [name |-> "Lee", phone |-> << "1", "2", "3" >>, email |-> << >>] >>

\* the module-level names of the session the dashboard parts read
LOGIN_TYPE == login_type
LOGIN_USER == login_user

\* the dashboard parts run for a logged-in session only
DashboardShown == LOGIN_TYPE # None

\* the e-mail address on file for a manager, "" when there is none
manager_contacts_email(mgr) ==
    IF \E i \in DOMAIN contact_df : contact_df[i].name = mgr
    THEN contact_df[CHOOSE i \in DOMAIN contact_df : contact_df[i].name = mgr].email
    ELSE << >>

LogRow(contract, content, author, at, note) ==
    [contract |-> contract, content |-> content, author |-> author,
     at |-> at, note |-> note]

RECURSIVE StripLeadingZeros(_)
StripLeadingZeros(s) ==
    IF Len(s) > 1 /\ Head(s) = "0" THEN StripLeadingZeros(Tail(s)) ELSE s

\* pd.read_csv(LOG_FILE) without dtype: a contract column of digit texts is
\* inferred as integers, which drops leading zeros; an empty note reads as NaN.
read_csv(rows) ==
    LET numeric == \A i \in DOMAIN rows :
                      /\ rows[i].contract # << >>
                      /\ \A k \in DOMAIN rows[i].contract : IsAsciiDigit(rows[i].contract[k])
    IN  [i \in DOMAIN rows |->
            [rows[i] EXCEPT
                !.contract = IF numeric THEN StripLeadingZeros(@) ELSE @,
                !.note = IF @ = << >> THEN NA ELSE @]]

\* df_logs.to_csv(LOG_FILE, index=False): NaN is written as the empty field
to_csv(rows) ==
    [i \in DOMAIN rows |-> [rows[i] EXCEPT !.note = IF @ = NA THEN << >> ELSE @]]

\* the value load_logs() returns at line 519: the cached value once there is
\* one (st.cache_data, never cleared by the script), else the file's rows
load_logs ==
    IF logsCache.filled THEN logsCache.rows
    ELSE IF logFileExists THEN read_csv(logFile)
    ELSE << >>

\* line 519 in every script run
RunLoadLogs ==
    /\ logs_loaded' = load_logs
    /\ logsCache' = [filled |-> TRUE, rows |-> load_logs]

\* a slip that tests the content without trimming it
ContentMissing_untrimmed(activity) == activity = << >>

\* line 549: activity.strip() == ""
ContentMissing(activity) == strip(activity) = << >>

\* the inputs the model types into the form
Contents == { << >>, << " " >>, << " ", " " >>, << " ", "a" >> }
Notes == { << >> }
Emails == { << >>, << " " >>, << "k", "@" >>, << "l", "@" >> }

AdminPwInputs == {"C3A", "C001"}
BranchPwInputs == {"C001", "C002"}
NameInputs == {"Kim", "Lee", "Park"}
Last4Inputs == { << "5", "6", "7", "8" >>, << "1", "2", "3" >> }

Init ==
    /\ SessionInit
    /\ inp = << >>
    /\ out = << >>
    /\ pc = "app"

\* lines 203-212
LoginAdmin(admin_pw) ==
    /\ IF admin_pw = "C3A"
       THEN /\ login_type' = "admin"
            /\ login_user' = "ADMIN"
            /\ lastMsg' = "login_ok"
       ELSE /\ UNCHANGED << login_type, login_user >>
            /\ lastMsg' = "login_error"
    /\ UNCHANGED << login_branch, logVars, now, smtpLog, pureVars >>

\* lines 217-229
LoginBranch(branch, pw) ==
    /\ IF pw = BRANCH_ADMIN_PW[branch]
       THEN /\ login_type' = "branch_admin"
            /\ login_user' = BranchAdminUser(branch)
            /\ login_branch' = branch
            /\ lastMsg' = "login_ok"
       ELSE /\ UNCHANGED sessionVars
            /\ lastMsg' = "login_error"
    /\ UNCHANGED << logVars, now, smtpLog, pureVars >>

\* a slip that takes real_phone[-4:] without the length check of line 250
LoginUser_noLengthCheck(name, pw) ==
    /\ LET found == { i \in DOMAIN contact_df : contact_df[i].name = name }
       IN  IF found = {}
           THEN /\ UNCHANGED sessionVars
                /\ lastMsg' = "login_error"
           ELSE LET real_phone == contact_df[CHOOSE i \in found : \A j \in found : i <= j].phone
                    n == Len(real_phone)
                    last4 == IF n >= 4 THEN SubSeq(real_phone, n - 3, n) ELSE real_phone
                IN  IF pw = last4
                    THEN /\ login_type' = "user"
                         /\ login_user' = name
                         /\ UNCHANGED login_branch
                         /\ lastMsg' = "login_ok"
                    ELSE /\ UNCHANGED sessionVars
                         /\ lastMsg' = "login_error"
    /\ UNCHANGED << logVars, now, smtpLog, pureVars >>

\* lines 235-259
LoginUser(name, pw) ==
    /\ LET found == { i \in DOMAIN contact_df : contact_df[i].name = name }
       IN  IF found = {}
           THEN /\ UNCHANGED sessionVars
                /\ lastMsg' = "login_error"
           ELSE LET real_phone == contact_df[CHOOSE i \in found : \A j \in found : i <= j].phone
                    n == Len(real_phone)
                IN  IF n >= 4 /\ pw = SubSeq(real_phone, n - 3, n)
                    THEN /\ login_type' = "user"
                         /\ login_user' = name
                         /\ UNCHANGED login_branch
                         /\ lastMsg' = "login_ok"
                    ELSE /\ UNCHANGED sessionVars
                         /\ lastMsg' = "login_error"
    /\ UNCHANGED << logVars, now, smtpLog, pureVars >>

\* lines 264-269
LoginPublic ==
    /\ login_type' = "public"
    /\ login_user' = "PUBLIC"
    /\ lastMsg' = "none"
    /\ UNCHANGED << login_branch, logVars, now, smtpLog, pureVars >>

\* lines 519-565: one script run with the registration button pressed;
\* sel_contract is one of ContractOptions
Register(sel_contract, activity, note) ==
    /\ DashboardShown
    /\ RunLoadLogs
    /\ IF sel_contract = PLACEHOLDER
       THEN /\ lastMsg' = "error_contract"
            /\ logs_df' = load_logs
            /\ UNCHANGED << logFile, logFileExists, now >>
       ELSE IF ContentMissing(activity)
       THEN /\ lastMsg' = "error_content"
            /\ logs_df' = load_logs
            /\ UNCHANGED << logFile, logFileExists, now >>
       ELSE /\ Len(load_logs) < MaxLogs
            /\ logs_df' = Append(load_logs,
                                 LogRow(sel_contract, activity, LOGIN_USER, now, note))
            /\ logFile' = to_csv(logs_df')
            /\ logFileExists' = TRUE
            /\ now' = IF now < MaxNow THEN now + 1 ELSE now
            /\ lastMsg' = "registered"
    /\ UNCHANGED << sessionVars, smtpLog, pureVars >>

\* one script run with no button pressed
Rerun ==
    /\ DashboardShown
    /\ RunLoadLogs
    /\ logs_df' = load_logs
    /\ lastMsg' = "none"
    /\ UNCHANGED << sessionVars, logFile, logFileExists, now, smtpLog, pureVars >>

\* a new browser session: a fresh st.session_state (lines 158-163); the
\* cache and the file belong to the server process and stay
NewSession ==
    /\ login_type' = None
    /\ login_user' = None
    /\ login_branch' = None
    /\ logs_loaded' = << >>
    /\ logs_df' = << >>
    /\ lastMsg' = "none"
    /\ UNCHANGED << logFile, logFileExists, logsCache, now, smtpLog, pureVars >>

\* the server process restarts: the cache is lost too
ProcessRestart ==
    /\ login_type' = None
    /\ login_user' = None
    /\ login_branch' = None
    /\ logsCache' = EmptyCache
    /\ logs_loaded' = << >>
    /\ logs_df' = << >>
    /\ lastMsg' = "none"
    /\ UNCHANGED << logFile, logFileExists, now, smtpLog, pureVars >>

Next ==
    \/ \E pw \in AdminPwInputs : LoginAdmin(pw)
    \/ \E n \in NameInputs, pw \in Last4Inputs : LoginUser(n, pw)
    \/ LoginPublic
    \/ \E c \in ContractOptions, a \in Contents, n \in Notes : Register(c, a, n)
    \/ Rerun
    \/ NewSession
    \/ ProcessRestart

Spec == Init /\ [][Next]_vars

\* every cleaned contract number of the data, whatever the role shows
AllContracts == { clean_contract(load_data.rows[i].contract) : i \in DOMAIN load_data.rows }

\* C1: the activity log is append-only: every row in the log store before a
\* step is still there, unchanged and at its place, after the step.
C1_AppendOnly ==
    [][ \A i \in 1..Len(logFile) :
            i <= Len(logFile') /\ logFile'[i] = logFile[i] ]_vars

\* C4: no write action is permitted to a public session: no step taken in a
\* public session changes the log store or hands a message to the mail relay.
C4_PublicReadOnly ==
    [][ login_type = "public" =>
            /\ logFile' = logFile
            /\ logFileExists' = logFileExists
            /\ smtpLog' = smtpLog ]_vars

\* C5: a registration whose contract is the placeholder, or whose content is
\* empty once trimmed, is rejected before any write: the log store is
\* unchanged, the in-memory log table is the one the run loaded, and an
\* error is reported instead of success.
C5_RejectedBeforeWrite ==
    [][ \A c \in AllContracts \cup {PLACEHOLDER}, a \in Contents, n \in Notes :
            ((c = PLACEHOLDER \/ strip(a) = << >>) /\ Register(c, a, n)) =>
                /\ logFile' = logFile
                /\ logFileExists' = logFileExists
                /\ logs_df' = logs_loaded'
                /\ lastMsg' \in {"error_contract", "error_content"} ]_vars

\* A blank content has been rejected with a row already in the store.
C5_Witness ==
    /\ lastMsg = "error_content"
    /\ logFileExists
    /\ Len(logFile) >= 1
    /\ logs_df = logs_loaded

----------------------------------------------------------------------------
(* E-mail alert dispatch *)

\* line 610: unmatched_df = df_view[df_view["체미매칭"] == "X"]
unmatched_df == Where(df_view, LAMBDA r : r.match = "X")

\* lines 616-629: the managers of alert_df, offered by the selectbox
AlertManagers ==
    { unmatched_df.rows[i].manager : i \in DOMAIN unmatched_df.rows } \ {"", "nan"}

\* a slip that tests the address without trimming it
EmailMissing_untrimmed(custom_email) == custom_email = << >>

\* line 653: custom_email.strip() == ""
EmailMissing(custom_email) == strip(custom_email) = << >>

\* one transmission handed to the relay, lines 657-684
Transmission(sel_mgr, custom_email, delivered) ==
    [to |-> custom_email, manager |-> sel_mgr,
     count |-> Len(Where(unmatched_df, LAMBDA r : r.manager = sel_mgr).rows),
     delivered |-> delivered]

\* lines 604-689: one script run with the send button pressed; delivered is
\* whether the relay carries the message or raises; sel_mgr is one of
\* AlertManagers
Dispatch(sel_mgr, custom_email, delivered) ==
    /\ DashboardShown
    /\ LOGIN_TYPE = "admin"
    /\ COL_MATCH \in df_view.cols
    /\ unmatched_df.rows # << >>
    /\ RunLoadLogs
    /\ logs_df' = load_logs
    /\ IF EmailMissing(custom_email)
       THEN /\ lastMsg' = "error_email"
            /\ UNCHANGED smtpLog
       ELSE /\ Len(smtpLog) < MaxMails
            /\ smtpLog' = Append(smtpLog, Transmission(sel_mgr, custom_email, delivered))
            /\ lastMsg' = IF delivered THEN "mail_sent" ELSE "mail_failed"
    /\ UNCHANGED << sessionVars, logFile, logFileExists, now, pureVars >>

NextMail ==
    \/ \E pw \in AdminPwInputs : LoginAdmin(pw)
    \/ LoginPublic
    \/ \E m \in AlertManagers, d \in BOOLEAN :
          \E e \in Emails \cup {manager_contacts_email(m)} : Dispatch(m, e, d)
    \/ NewSession

SpecMail == Init /\ [][NextMail]_vars

\* C6: a dispatch to an empty or blank address fails without a transmission;
\* a transport fault is reported to the user and is not retried (one
\* transmission per press, earlier ones untouched); and while the relay log
\* has room an admin session can still dispatch to any recipient with either
\* outcome, whatever the earlier outcomes were.
C6_DispatchFailure ==
    /\ [][ /\ \A m \in AlertManagers, e \in Emails, d \in BOOLEAN :
                (Dispatch(m, e, d) /\ strip(e) = << >>) =>
                    (smtpLog' = smtpLog /\ lastMsg' = "error_email")
           /\ \A m \in AlertManagers, e \in Emails :
                (Dispatch(m, e, FALSE) /\ strip(e) # << >>) =>
                    /\ lastMsg' = "mail_failed"
                    /\ smtpLog' = Append(smtpLog, Transmission(m, e, FALSE))
           /\ Len(smtpLog') <= Len(smtpLog) + 1
           /\ \A i \in 1..Len(smtpLog) : smtpLog'[i] = smtpLog[i] ]_vars
    /\ [] ( (login_type = "admin" /\ Len(smtpLog) < MaxMails) =>
              \A m \in AlertManagers, e \in Emails, d \in BOOLEAN :
                  strip(e) # << >> => ENABLED Dispatch(m, e, d) )

\* A failed dispatch has been followed by a delivered one to another address.
C6_Witness ==
    /\ Len(smtpLog) = 2
    /\ ~ smtpLog[1].delivered
    /\ smtpLog[2].delivered
    /\ smtpLog[1].to # smtpLog[2].to
    /\ lastMsg = "mail_sent"

----------------------------------------------------------------------------
(* Specification of the login screen *)

\* line 218: the selectbox offers every key of BRANCH_ADMIN_PW
Branches == DOMAIN BRANCH_ADMIN_PW

\* the passwords typed in the branch tab: each branch's own, and the
\* administrator's
BranchPwAttempts == { BRANCH_ADMIN_PW[b] : b \in Branches } \cup {"C3A"}

\* a successful login ends with st.rerun() (lines 210, 227, 257, 269), so the
\* script runs again for the session just established
NextLogin ==
    \/ \E pw \in AdminPwInputs : LoginAdmin(pw)
    \/ \E b \in Branches, pw \in BranchPwAttempts : LoginBranch(b, pw)
    \/ \E n \in NameInputs, pw \in Last4Inputs : LoginUser(n, pw)
    \/ LoginPublic
    \/ Rerun
    \/ NewSession

SpecLogin == Init /\ [][NextLogin]_vars

\* the first row of the contact table under the name, as row.iloc[0] takes it
ContactRows(name) == { i \in DOMAIN contact_df : contact_df[i].name = name }

\* an attempt in the staff tab that must fail: the name is unknown, the stored
\* phone has fewer than 4 characters, or pw is not its last 4 characters
UserAttemptFails(name, pw) ==
    \/ ContactRows(name) = {}
    \/ LET phone == contact_df[CHOOSE i \in ContactRows(name) :
                                  \A j \in ContactRows(name) : i <= j].phone
       IN  \/ Len(phone) < 4
           \/ pw # SubSeq(phone, Len(phone) - 3, Len(phone))

\* C11: the session is established only by a successful authentication: a
\* failed attempt (wrong admin password, wrong branch password, unknown
\* manager name, wrong last 4 digits, stored phone shorter than 4 characters)
\* leaves login_type, login_user and login_branch unchanged; a branch login
\* with the matching password sets login_branch to that branch and login_user
\* to that branch followed by "_ADMIN", and whenever login_type is
\* "branch_admin" the session holds such a pair.
C11_SessionByAuthentication ==
    /\ [][ /\ \A pw \in AdminPwInputs :
                 (pw # "C3A" /\ LoginAdmin(pw)) => UNCHANGED sessionVars
           /\ \A b \in Branches, pw \in BranchPwAttempts :
                 (pw # BRANCH_ADMIN_PW[b] /\ LoginBranch(b, pw))
                     => UNCHANGED sessionVars
           /\ \A n \in NameInputs, pw \in Last4Inputs :
                 (UserAttemptFails(n, pw) /\ LoginUser(n, pw))
                     => UNCHANGED sessionVars
           /\ \A b \in Branches, pw \in BranchPwAttempts :
                 (pw = BRANCH_ADMIN_PW[b] /\ LoginBranch(b, pw))
                     => /\ login_type' = "branch_admin"
                        /\ login_branch' = b
                        /\ login_user' = BranchAdminUser(b) ]_vars
    /\ [](login_type = "branch_admin"
            => /\ login_branch \in Branches
               /\ login_user = BranchAdminUser(login_branch))

\* A branch administrator is logged in and a later attempt has failed.
C11_Witness ==
    /\ login_type = "branch_admin"
    /\ login_branch = "Gangbuk"
    /\ login_user = "Gangbuk_ADMIN"
    /\ lastMsg = "login_error"

----------------------------------------------------------------------------
(* Query filter *)

ALL == "ALL"

\* the table a filter step leaves when it indexes a column the table lacks
KeyError == Table({"KeyError"}, << >>)

\* lines 394-395
StepBranches(df, crit) ==
    IF df = KeyError THEN KeyError
    ELSE IF ALL \notin crit.sel_branches
    THEN IF COL_BRANCH \in df.cols
         THEN Where(df, LAMBDA r : r.branch \in crit.sel_branches)
         ELSE KeyError
    ELSE df

\* lines 397-398
StepManagers(df, crit) ==
    IF df = KeyError THEN KeyError
    ELSE IF ALL \notin crit.sel_managers
    THEN IF COL_MANAGER \in df.cols
         THEN Where(df, LAMBDA r : r.manager \in crit.sel_managers)
         ELSE KeyError
    ELSE df

\* a slip that falls back to the unfiltered table when no row matches
StepRisk_fallback(df, crit) ==
    IF df = KeyError THEN KeyError
    ELSE IF crit.sel_risk # {} /\ COL_RISK \in df.cols
    THEN LET kept == Where(df, LAMBDA r : r.risk \in crit.sel_risk)
         IN  IF kept.rows = << >> THEN df ELSE kept
    ELSE df

\* lines 400-402
StepRisk(df, crit) ==
    IF df = KeyError THEN KeyError
    ELSE IF crit.sel_risk # {}
    THEN IF COL_RISK \in df.cols
         THEN Where(df, LAMBDA r : r.risk \in crit.sel_risk)
         ELSE df
    ELSE df

\* lines 404-406
StepMatch(df, crit) ==
    IF df = KeyError THEN KeyError
    ELSE IF crit.sel_match # {}
    THEN IF COL_MATCH \in df.cols
         THEN Where(df, LAMBDA r : r.match \in crit.sel_match)
         ELSE df
    ELSE df

\* lines 408-410
StepVoc(df, crit) ==
    IF df = KeyError THEN KeyError
    ELSE IF crit.sel_voc_mid # ""
    THEN IF crit.sel_voc_mid # ALL /\ COL_VOC \in df.cols
         THEN Where(df, LAMBDA r : r.voc = crit.sel_voc_mid)
         ELSE df
    ELSE df

\* line 412
StepFee(df, crit) ==
    IF df = KeyError THEN KeyError
    ELSE Where(df, LAMBDA r : r.fee >= crit.fee_min /\ r.fee <= crit.fee_max)

Criteria == {"branches", "managers", "risk", "match", "voc", "fee"}

Step(c, df, crit) ==
    CASE c = "branches" -> StepBranches(df, crit)
      [] c = "managers" -> StepManagers(df, crit)
      [] c = "risk" -> StepRisk(df, crit)
      [] c = "match" -> StepMatch(df, crit)
      [] c = "voc" -> StepVoc(df, crit)
      [] c = "fee" -> StepFee(df, crit)

\* lines 392-412, in the order of the script
apply_filters(df, crit) ==
    StepFee(StepVoc(StepMatch(StepRisk(StepManagers(StepBranches(df, crit), crit),
                                       crit), crit), crit), crit)

----------------------------------------------------------------------------
(* Specification of the query filter *)

FilterRow(i) ==
    RowOf(<< "1" >>,
          IF i % 2 = 1 THEN "Jungang" ELSE "Gangbuk",
          IF (i \div 2) % 2 = 0 THEN "Kim" ELSE "Lee",
          "Kim",
          CASE i % 3 = 1 -> "HIGH" [] i % 3 = 2 -> "MEDIUM" [] OTHER -> "LOW",
          IF i % 3 = 0 THEN "O" ELSE "X",
          IF i % 2 = 0 THEN "v1" ELSE "v2",
          CASE i % 3 = 1 -> 100 [] i % 3 = 2 -> 600 [] OTHER -> 200)

FilterCols == SUBSET {COL_BRANCH, COL_MANAGER, COL_RISK, COL_MATCH, COL_VOC}

FilterTables ==
    { Table(c, [i \in 1..n |-> FilterRow(i)]) :
        c \in FilterCols, n \in {0, MaxFilterRows} }

\* lines 361-369: a multiselect over ["전체"] + the column's values; the model
\* selects the default, nothing, or one value
MultiSelections(values) == { {ALL}, {} } \cup { {v} : v \in values }

\* lines 371-375: a multiselect over fixed levels, all selected by default
LevelSelections(levels, one) == { levels, {}, {one} }

\* the criteria the sidebar can hold for a table
SidebarCriteria(df) ==
    [ sel_branches : MultiSelections(IF COL_BRANCH \in df.cols
                                     THEN { r.branch : r \in Range(df.rows) } ELSE {}),
      sel_managers : MultiSelections(IF COL_MANAGER \in df.cols
                                     THEN { r.manager : r \in Range(df.rows) } ELSE {}),
      sel_risk : LevelSelections({"HIGH", "MEDIUM", "LOW"}, "HIGH"),
      sel_match : LevelSelections({"X", "O"}, "X"),
      sel_voc_mid : {ALL} \cup (IF COL_VOC \in df.cols
                                THEN { r.voc : r \in Range(df.rows) } ELSE {}),
      fee_min : {0, 150},
      fee_max : {500} ]

InitFilter ==
    /\ SessionInit
    /\ \E t \in FilterTables :
          \E c \in SidebarCriteria(t) : inp = [df_view |-> t, crit |-> c]
    /\ out = [df_f |-> inp.df_view, applied |-> {}, first |-> inp.df_view]
    /\ pc = "df_view"

\* one criterion of lines 394-412 applied to the working table, in any order
ApplyStep(c) ==
    /\ pc \in {"df_view", "steps"}
    /\ c \notin out.applied
    /\ out' = [df_f |-> Step(c, out.df_f, inp.crit),
               applied |-> out.applied \cup {c},
               first |-> out.first]
    /\ pc' = "steps"
    /\ UNCHANGED << appVars, inp >>

\* lines 392-412
ApplyFilters ==
    /\ pc = "df_view"
    /\ out' = [df_f |-> apply_filters(inp.df_view, inp.crit),
               applied |-> Criteria,
               first |-> apply_filters(inp.df_view, inp.crit)]
    /\ pc' = "df_f"
    /\ UNCHANGED << appVars, inp >>

\* the filter applied a second time to its own result
ApplyFiltersAgain ==
    /\ pc = "df_f"
    /\ out' = [out EXCEPT !.df_f = apply_filters(out.df_f, inp.crit)]
    /\ pc' = "twice"
    /\ UNCHANGED << appVars, inp >>

NextFilter ==
    \/ \E c \in Criteria : ApplyStep(c)
    \/ ApplyFilters
    \/ ApplyFiltersAgain

SpecFilter == InitFilter /\ [][NextFilter]_vars

\* C7: the criteria applied one by one in any order leave the table the
\* script's order leaves, and the whole filter applied to its own result
\* returns that result.
C7_OrderAndIdempotence ==
    /\ (pc = "steps" /\ out.applied = Criteria)
          => out.df_f = apply_filters(inp.df_view, inp.crit)
    /\ pc = "twice" => out.df_f = out.first

\* Filters that narrow a table have been applied in another order than the
\* script's, and a second time.
C7_Witness ==
    /\ pc = "twice"
    /\ out.df_f # KeyError
    /\ Len(out.df_f.rows) >= 1
    /\ Len(out.df_f.rows) < Len(inp.df_view.rows)
    /\ inp.crit.sel_branches # {ALL}
    /\ inp.crit.sel_risk = {"HIGH"}

\* criterion c does not apply: its selection is the wildcard or empty, or the
\* table lacks its column
Inactive(c) ==
    CASE c = "branches" -> \/ inp.crit.sel_branches \in { {ALL}, {} }
                           \/ COL_BRANCH \notin inp.df_view.cols
      [] c = "managers" -> \/ inp.crit.sel_managers \in { {ALL}, {} }
                           \/ COL_MANAGER \notin inp.df_view.cols
      [] c = "risk" -> inp.crit.sel_risk = {} \/ COL_RISK \notin inp.df_view.cols
      [] c = "match" -> inp.crit.sel_match = {} \/ COL_MATCH \notin inp.df_view.cols
      [] c = "voc" -> inp.crit.sel_voc_mid = ALL \/ COL_VOC \notin inp.df_view.cols
      [] c = "fee" -> FALSE

\* C8: a criterion whose selection is the wildcard or empty, or whose column
\* the table lacks, leaves the table unchanged and raises no error.
C8_InactiveCriterionIsNoOp ==
    \A c \in Criteria :
        (pc = "steps" /\ out.applied = {c} /\ Inactive(c))
            => out.df_f = inp.df_view

====
